---- MODULE Spec2Model ----
(***************************************************************************)
(* A model of week4.py: the ExpenseTracker store (load, add_expense,       *)
(* delete_expense) and its query and report functions (list_expenses,      *)
(* monthly_report).                                                        *)
(*                                                                         *)
(* Text is modelled as a sequence of ASCII codes, so that strip(),         *)
(* lower(), float(), the .2f format, strptime(), strftime() and the        *)
(* lexicographic order of the sort key are computed, not assumed.          *)
(* An optional value (Python's None) is a sequence of length 0 or 1.       *)
(* A float is modelled exactly, as an integer number of thousandths.       *)
(***************************************************************************)
EXTENDS Integers, Sequences, FiniteSets, TLC

VARIABLES
    file,          \* the data rows of expenses.csv, after its header row
    expenses,      \* self.expenses
    tracker,       \* "new": __init__ before load(); "ready"; "none": __init__ raised
    op,            \* the call made last
    args,          \* its arguments
    ret,           \* how it ended: what it returned or the exception it raised
    out,           \* the value it returned
    pre_expenses,  \* self.expenses when the call began
    pre_file       \* the file when the call began

vars == <<file, expenses, tracker, op, args, ret, out, pre_expenses, pre_file>>

----------------------------------------------------------------------------
(* Bounds *)

\* the longest initial file (in data rows) and the longest collection add grows;
\* the collections of the query specification are loaded from such files
MaxLen == 2

----------------------------------------------------------------------------
(* Text *)

None == <<>>

Some(x) == <<x>>

\* str.isspace for the ASCII whitespace characters
IsSpace(c) == c \in {9, 10, 11, 12, 13, 32}

RECURSIVE lstrip(_)
lstrip(s) ==
    IF s = <<>> THEN s
    ELSE IF IsSpace(Head(s)) THEN lstrip(Tail(s)) ELSE s

RECURSIVE rstrip(_)
rstrip(s) ==
    IF s = <<>> THEN s
    ELSE IF IsSpace(s[Len(s)]) THEN rstrip(SubSeq(s, 1, Len(s) - 1)) ELSE s

\* str.strip()
strip(s) == rstrip(lstrip(s))

\* str.lower() on ASCII text
lower(s) == [i \in 1..Len(s) |-> IF s[i] \in 65..90 THEN s[i] + 32 ELSE s[i]]

\* the order of Python's str comparison: a < b
RECURSIVE StrLess(_, _)
StrLess(a, b) ==
    IF b = <<>> THEN FALSE
    ELSE IF a = <<>> THEN TRUE
    ELSE IF Head(a) # Head(b) THEN Head(a) < Head(b)
    ELSE StrLess(Tail(a), Tail(b))

IsDigit(c) == c \in 48..57

AllDigits(s) == Len(s) > 0 /\ \A i \in 1..Len(s) : IsDigit(s[i])

\* the number a string of digits writes
RECURSIVE Num(_)
Num(s) == IF s = <<>> THEN 0 ELSE 10 * Num(SubSeq(s, 1, Len(s) - 1)) + (s[Len(s)] - 48)

\* the decimal digits of n >= 0
RECURSIVE Digits(_)
Digits(n) == IF n < 10 THEN <<48 + n>> ELSE Digits(n \div 10) \o <<48 + (n % 10)>>

\* the digits of n, zero-padded to width w
RECURSIVE Pad(_, _)
Pad(n, w) == IF Len(Digits(n)) >= w THEN Digits(n) ELSE <<48>> \o Pad(n, w - 1)

----------------------------------------------------------------------------
(* Dates: datetime.strptime(s, "%Y-%m-%d") and date_obj.strftime("%Y-%m-%d") *)

IsLeap(y) == (y % 4 = 0 /\ y % 100 # 0) \/ y % 400 = 0

DaysIn(y, m) ==
    IF m = 2 THEN (IF IsLeap(y) THEN 29 ELSE 28)
    ELSE IF m \in {4, 6, 9, 11} THEN 30 ELSE 31

\* strptime: %Y is four digits; %m and %d are one or two digits (a leading
\* zero is optional); the fields are joined by "-"; datetime then rejects a
\* day the month does not have.  None models the ValueError.
strptime(s) ==
    LET dashes == {i \in 1..Len(s) : s[i] = 45}
    IN  IF Cardinality(dashes) # 2 THEN None
        ELSE
          LET i == CHOOSE k \in dashes : \A l \in dashes : k <= l
              j == CHOOSE k \in dashes : \A l \in dashes : k >= l
              Y == SubSeq(s, 1, i - 1)
              M == SubSeq(s, i + 1, j - 1)
              D == SubSeq(s, j + 1, Len(s))
          IN  IF /\ Len(Y) = 4 /\ AllDigits(Y) /\ Num(Y) >= 1
                 /\ Len(M) \in 1..2 /\ AllDigits(M) /\ Num(M) \in 1..12
                 /\ Len(D) \in 1..2 /\ AllDigits(D) /\ Num(D) \in 1..31
                 /\ Num(D) <= DaysIn(Num(Y), Num(M))
              THEN Some([year |-> Num(Y), month |-> Num(M), day |-> Num(D)])
              ELSE None

\* strftime of a date whose year has four digits
strftime(d) == Pad(d.year, 4) \o <<45>> \o Pad(d.month, 2) \o <<45>> \o Pad(d.day, 2)

----------------------------------------------------------------------------
(* Amounts: float(s) and f"{amt:.2f}" *)

\* float(s) for the decimal notation [sign] digits [ "." digits ], surrounding
\* whitespace ignored as float() ignores it; None models the ValueError.  The
\* value is in thousandths: texts with more than three fractional digits are
\* outside the model's input sets.
ParseFloat(s) ==
    LET t    == strip(s)
        neg  == t # <<>> /\ Head(t) = 45
        u    == IF t # <<>> /\ Head(t) \in {43, 45} THEN Tail(t) ELSE t
        dots == {i \in 1..Len(u) : u[i] = 46}
    IN  IF Cardinality(dots) > 1 THEN None
        ELSE
          LET p    == IF dots = {} THEN Len(u) + 1 ELSE CHOOSE i \in dots : TRUE
              ip   == SubSeq(u, 1, p - 1)
              fp   == SubSeq(u, p + 1, Len(u))
              fp3  == SubSeq(fp \o <<48, 48, 48>>, 1, 3)
          IN  IF /\ (ip # <<>> \/ fp # <<>>)
                 /\ (ip = <<>> \/ AllDigits(ip))
                 /\ (fp = <<>> \/ AllDigits(fp))
              THEN Some((IF neg THEN -1 ELSE 1) * (1000 * Num(ip) + Num(fp3)))
              ELSE None

\* round to the nearest hundredth, in thousandths (the input sets hold no
\* exact half, whose direction depends on the binary value of the float)
Round2(x) ==
    IF x >= 0 THEN ((x + 5) \div 10) * 10 ELSE -(((-x + 5) \div 10) * 10)

\* f"{amt:.2f}"
Format2f(x) ==
    LET r == Round2(x)
        a == IF r < 0 THEN -r ELSE r
    IN  (IF r < 0 THEN <<45>> ELSE <<>>)
        \o Digits(a \div 1000) \o <<46>> \o Pad((a % 1000) \div 10, 2)

----------------------------------------------------------------------------
(* The record and the file *)

\* Expense = namedtuple("Expense", ["id", "date", "amount", "category", "description"])
Expense(id, date, amount, category, description) ==
    [id |-> id, date |-> date, amount |-> amount,
     category |-> category, description |-> description]

\* writer.writerow([e.id, e.date, e.amount, e.category, e.description]): a
\* row is the sequence of its fields; csv quoting makes the fields read back
\* as they were written
WriteRow(e) == <<e.id, e.date, e.amount, e.category, e.description>>

\* the rows delete_expense writes after the header
RECURSIVE WriteRows(_)
WriteRows(es) == IF es = <<>> THEN <<>> ELSE <<WriteRow(Head(es))>> \o WriteRows(Tail(es))

\* DictReader: field k of a row under the header id,date,amount,category,
\* description; a row shorter than the header reads None for what is missing
Field(row, k) == IF k <= Len(row) THEN Some(row[k]) ELSE None

\* load(), lines 55-69, over the rows left to read; acc is self.expenses.
\* raised: the AttributeError of None.strip() on a missing category or
\* description, which no except clause catches.
RECURSIVE LoadRows(_, _)
LoadRows(rows, acc) ==
    IF rows = <<>> THEN [expenses |-> acc, raised |-> FALSE]
    ELSE
      LET r      == Head(rows)
          amount == Field(r, 3)
          date   == Field(r, 2)
          amt    == IF amount = None THEN None ELSE ParseFloat(amount[1])
          dt     == IF date = None THEN None ELSE strptime(date[1])
      IN  IF r = <<>> THEN LoadRows(Tail(rows), acc)      \* DictReader skips an empty row
          ELSE IF amt = None THEN LoadRows(Tail(rows), acc)
          ELSE IF dt = None THEN LoadRows(Tail(rows), acc)
          ELSE IF Field(r, 4) = None \/ Field(r, 5) = None
               THEN [expenses |-> acc, raised |-> TRUE]
          ELSE LoadRows(Tail(rows),
                        Append(acc, Expense(r[1], date[1], Format2f(amt[1]),
                                            strip(r[4]), strip(r[5]))))

\* load(): self.expenses = [] and then the rows of the file
load(rows) == LoadRows(rows, <<>>)

\* str(uuid.uuid4()): an id no record and no row has ("u0", "u1", ...)
Uuid(k) == <<117>> \o Digits(k)

UsedIds(es, rows) ==
    {es[i].id : i \in 1..Len(es)} \cup {rows[i][1] : i \in {j \in 1..Len(rows) : rows[j] # <<>>}}

uuid4(es, rows) ==
    Uuid(CHOOSE k \in 0..(Len(es) + Len(rows)) :
            /\ Uuid(k) \notin UsedIds(es, rows)
            /\ \A l \in 0..(k - 1) : Uuid(l) \in UsedIds(es, rows))

----------------------------------------------------------------------------
(* Inputs *)

\* a date text with its month and day written to width w (1: no leading zero)
DateText(y, m, d, w) == Pad(y, 4) \o <<45>> \o Pad(m, w) \o <<45>> \o Pad(d, w)

TxtFood     == <<70, 111, 111, 100>>             \* "Food"
TxtFoodLow  == <<102, 111, 111, 100>>            \* "food"
TxtFoodUp   == <<70, 79, 79, 68>>                \* "FOOD"
TxtFoodPad  == <<32, 70, 111, 111, 100, 32>>     \* " Food "
TxtBills    == <<66, 105, 108, 108, 115>>        \* "Bills"
TxtNote     == <<32, 120, 32>>                   \* " x "
TxtAbc      == <<97, 98, 99>>                    \* "abc"
TxtFive     == <<53>>                            \* "5"
TxtSeven50  == <<55, 46, 53, 48>>                \* "7.50"
TxtLong     == <<49, 50, 46, 51, 52, 54>>        \* "12.346"
IdA         == <<97>>                            \* "a"
IdB         == <<98>>                            \* "b"

\* the rows an initial file is made of
RowPlain     == <<IdA, DateText(2024, 3, 10, 2), TxtFive, TxtFoodPad, <<>>>>
RowLoose     == <<IdB, DateText(2024, 3, 5, 1), TxtLong, TxtFoodLow, TxtNote>>
RowBadAmount == <<IdB, DateText(2024, 3, 10, 2), TxtAbc, TxtFood, <<>>>>
RowBadDate   == <<IdA, DateText(2024, 2, 30, 2), TxtFive, TxtBills, <<>>>>
RowShort     == <<IdB, DateText(2024, 3, 7, 2), TxtFive>>

InitRows == {RowPlain, RowLoose, RowBadAmount, RowBadDate, RowShort}

SeqsUpTo(S, n) == UNION {[1..k -> S] : k \in 0..n}

InitFiles == SeqsUpTo(InitRows, MaxLen)

\* what add_expense is called with
AmountInputs   == {TxtAbc, TxtLong}
CategoryInputs == {TxtFoodPad}
DateInputs     == {None, Some(DateText(2024, 3, 5, 1)),
                   Some(DateText(2024, 13, 1, 2)), Some(DateText(2024, 2, 30, 2))}
DescInputs     == {TxtNote}
Todays         == {[year |-> 2024, month |-> 4, day |-> 10]}

\* what delete_expense is called with
IdInputs == {IdA, IdB, Uuid(0)}

----------------------------------------------------------------------------
(* The store: __init__, load, add_expense, delete_expense *)

Init ==
    /\ file \in InitFiles
    /\ expenses = <<>>
    /\ tracker = "new"
    /\ op = "new"
    /\ args = <<>>
    /\ ret = "none"
    /\ out = <<>>
    /\ pre_expenses = <<>>
    /\ pre_file = file

\* what every call records when it begins
Called(name, a) ==
    /\ op' = name
    /\ args' = a
    /\ pre_expenses' = expenses
    /\ pre_file' = file

\* __init__, line 17: self.load(); when load raises there is no tracker
Construct ==
    /\ tracker = "new"
    /\ Called("construct", <<>>)
    /\ LET l == load(file)
       IN  /\ expenses' = l.expenses
           /\ tracker' = IF l.raised THEN "none" ELSE "ready"
           /\ ret' = IF l.raised THEN "AttributeError" ELSE "none"
    /\ out' = <<>>
    /\ UNCHANGED file

\* load() called on a tracker
Load ==
    /\ tracker = "ready"
    /\ Called("load", <<>>)
    /\ LET l == load(file)
       IN  /\ expenses' = l.expenses
           /\ ret' = IF l.raised THEN "AttributeError" ELSE "none"
    /\ out' = <<>>
    /\ UNCHANGED <<file, tracker>>

\* AddParsed without the check of the amount: what does not parse counts as 0
AddParsedUnchecked(amount, date, today) ==
    LET date_obj == IF date = None THEN Some(today) ELSE strptime(date[1])
    IN  IF date_obj = None THEN None
        ELSE Some([date_obj |-> date_obj[1],
                   amt |-> IF ParseFloat(amount) = None THEN 0 ELSE ParseFloat(amount)[1]])

\* add_expense, lines 28-38: the date and the amount it accepts; None models
\* the ValueError it raises
AddParsed(amount, date, today) ==
    LET date_obj == IF date = None THEN Some(today) ELSE strptime(date[1])
    IN  IF date_obj = None THEN None
        ELSE IF ParseFloat(amount) = None THEN None
        ELSE Some([date_obj |-> date_obj[1], amt |-> ParseFloat(amount)[1]])

\* add_expense, lines 41-42: the record is appended to self.expenses, then
\* to the file; written is whether _append_to_file succeeds (it raises
\* OSError when the file cannot be opened for appending)
AddStore(new, written) ==
    /\ expenses' = Append(expenses, new)
    /\ file' = IF written THEN Append(file, WriteRow(new)) ELSE file
    /\ ret' = IF written THEN "record" ELSE "OSError"
    /\ out' = IF written THEN Some(new) ELSE None

add_expense(amount, category, date, description, today, written) ==
    /\ tracker = "ready"
    /\ Len(expenses) < MaxLen
    /\ Len(file) < MaxLen
    /\ Called("add", [amount |-> amount, category |-> category, date |-> date,
                      description |-> description])
    /\ LET p == AddParsed(amount, date, today)
       IN  IF p = None
           THEN /\ ret' = "ValueError"
                /\ out' = None
                /\ UNCHANGED <<expenses, file>>
           ELSE AddStore(Expense(uuid4(expenses, file), strftime(p[1].date_obj),
                                 Format2f(p[1].amt), strip(category), strip(description)),
                         written)
    /\ UNCHANGED tracker

\* delete_expense, line 137
Remaining(es, expense_id) == SelectSeq(es, LAMBDA e : e.id # expense_id)

\* Rewrite that leaves the file alone
RewriteSkipped(es, unopened, kept) == file

\* delete_expense, lines 142-146: open(..., "w") and the rows written.  kept
\* is how many of the rows reach the file: all of them, or fewer when a write
\* raises OSError; unopened is open() itself raising, the file left as it was
Rewrite(es, unopened, kept) ==
    IF unopened THEN file ELSE SubSeq(WriteRows(es), 1, kept)

delete_expense(expense_id, unopened, kept) ==
    /\ tracker = "ready"
    /\ Called("delete", [expense_id |-> expense_id])
    /\ LET rest == Remaining(expenses, expense_id)
       IN  IF Len(expenses) = Len(rest)
           THEN /\ unopened = FALSE /\ kept = 0
                /\ expenses' = rest
                /\ ret' = "false"
                /\ UNCHANGED file
           ELSE /\ kept <= Len(rest)
                /\ unopened => kept = 0
                /\ expenses' = rest
                /\ file' = Rewrite(rest, unopened, kept)
                /\ ret' = IF ~unopened /\ kept = Len(rest) THEN "true" ELSE "OSError"
    /\ out' = <<>>
    /\ UNCHANGED tracker

Next ==
    \/ Construct
    \/ Load
    \/ \E amount \in AmountInputs, category \in CategoryInputs, date \in DateInputs,
          description \in DescInputs, today \in Todays, written \in BOOLEAN :
          add_expense(amount, category, date, description, today, written)
    \/ \E expense_id \in IdInputs, unopened \in BOOLEAN, kept \in 0..MaxLen :
          delete_expense(expense_id, unopened, kept)

Spec == Init /\ [][Next]_vars

----------------------------------------------------------------------------
(* The query and the report: list_expenses, monthly_report *)

\* list_expenses, lines 75-81: whether record e passes the filters
Matches(e, year, month, category) ==
    LET dt == strptime(e.date)[1]
    IN  /\ year = None \/ dt.year = year[1]
        /\ month = None \/ dt.month = month[1]
        /\ category = None \/ lower(e.category) = lower(category[1])

\* one step of the stable sort, key x.date, reverse=True: e goes before the
\* first element whose date is smaller, after every element whose date is equal
RECURSIVE InsertDesc(_, _)
InsertDesc(s, e) ==
    IF s = <<>> THEN <<e>>
    ELSE IF StrLess(Head(s).date, e.date) THEN <<e>> \o s
    ELSE <<Head(s)>> \o InsertDesc(Tail(s), e)

RECURSIVE SortInto(_, _)
SortInto(acc, rest) ==
    IF rest = <<>> THEN acc ELSE SortInto(InsertDesc(acc, Head(rest)), Tail(rest))

\* results.sort(key=lambda x: x.date, reverse=True)
SortDesc(results) == SortInto(<<>>, results)

\* "if limit:", line 85
Truthy(limit) == limit # None /\ limit[1] # 0

\* results[:n] for n >= 0
Slice(s, n) == SubSeq(s, 1, IF n < Len(s) THEN n ELSE Len(s))

list_expenses(es, year, month, category, limit) ==
    LET results == SortDesc(SelectSeq(es, LAMBDA e : Matches(e, year, month, category)))
    IN  IF Truthy(limit) THEN Slice(results, limit[1]) ELSE results

\* Accumulate with "=" for "+=": the amount of a category is its last record's
AccumulateOverwrite(totals, e) ==
    LET amt == ParseFloat(e.amount)[1]
    IN  IF \E i \in 1..Len(totals) : totals[i].category = e.category
        THEN [i \in 1..Len(totals) |->
                 IF totals[i].category = e.category
                 THEN [category |-> e.category, amount |-> amt,
                       count |-> totals[i].count + 1]
                 ELSE totals[i]]
        ELSE Append(totals, [category |-> e.category, amount |-> amt, count |-> 1])

\* lines 94-96: one record added to totals, a sequence of entries in the
\* insertion order of the dict
Accumulate(totals, e) ==
    LET amt == ParseFloat(e.amount)[1]
    IN  IF \E i \in 1..Len(totals) : totals[i].category = e.category
        THEN [i \in 1..Len(totals) |->
                 IF totals[i].category = e.category
                 THEN [category |-> e.category,
                       amount |-> totals[i].amount + amt,
                       count |-> totals[i].count + 1]
                 ELSE totals[i]]
        ELSE Append(totals, [category |-> e.category, amount |-> amt, count |-> 1])

RECURSIVE Totals(_, _)
Totals(totals, es) ==
    IF es = <<>> THEN totals ELSE Totals(Accumulate(totals, Head(es)), Tail(es))

\* line 97, over the whole loop
RECURSIVE TotalSpent(_)
TotalSpent(es) ==
    IF es = <<>> THEN 0 ELSE ParseFloat(Head(es).amount)[1] + TotalSpent(Tail(es))

monthly_report(es, year, month) ==
    LET listed == list_expenses(es, Some(year), Some(month), None, None)
        totals == Totals(<<>>, listed)
    IN  [year |-> year, month |-> month,
         categories |-> [i \in 1..Len(totals) |->
                            [category |-> totals[i].category,
                             amount |-> Round2(totals[i].amount),
                             count |-> totals[i].count]],
         total_spent |-> Round2(TotalSpent(listed))]

\* the rows the collections of the query specification are loaded from
RowApril    == <<IdA, DateText(2024, 4, 10, 2), TxtSeven50, TxtBills, <<>>>>
RowLastYear == <<IdB, DateText(2023, 3, 10, 2), TxtSeven50, TxtFood, <<>>>>
RowMarch    == <<IdB, DateText(2024, 3, 7, 2), TxtSeven50, TxtFood, TxtNote>>

QueryRows == {RowPlain, RowLoose, RowApril, RowLastYear, RowMarch}

YearInputs     == {None, Some(2024)}
MonthInputs    == {None, Some(3)}
FilterInputs   == {None, Some(TxtFoodUp)}
LimitInputs    == {None, Some(0), Some(1)}
ReportYears    == {2023, 2024}
ReportMonths   == {3, 4}

List(year, month, category, limit) ==
    /\ tracker = "ready"
    /\ Called("list", [year |-> year, month |-> month, category |-> category,
                       limit |-> limit])
    /\ out' = list_expenses(expenses, year, month, category, limit)
    /\ ret' = "list"
    /\ UNCHANGED <<expenses, file, tracker>>

Report(year, month) ==
    /\ tracker = "ready"
    /\ Called("report", [year |-> year, month |-> month])
    /\ out' = monthly_report(expenses, year, month)
    /\ ret' = "report"
    /\ UNCHANGED <<expenses, file, tracker>>

\* a tracker constructed over a file of QueryRows
QueryInit ==
    /\ file \in SeqsUpTo(QueryRows, MaxLen)
    /\ expenses = load(file).expenses
    /\ tracker = "ready"
    /\ op = "construct"
    /\ args = <<>>
    /\ ret = "none"
    /\ out = <<>>
    /\ pre_expenses = <<>>
    /\ pre_file = file

QueryNext ==
    \/ \E year \in YearInputs, month \in MonthInputs, category \in FilterInputs,
          limit \in LimitInputs : List(year, month, category, limit)
    \/ \E year \in ReportYears, month \in ReportMonths : Report(year, month)

QuerySpec == QueryInit /\ [][QueryNext]_vars

----------------------------------------------------------------------------
(* What the claims are stated with *)

Ids(es) == {es[i].id : i \in 1..Len(es)}

\* how many times x occurs in the sequence s
Count(s, x) == Cardinality({i \in 1..Len(s) : s[i] = x})

\* the calendar day a record's date names, as a number that orders days
Day(e) ==
    LET dt == strptime(e.date)[1]
    IN  dt.year * 10000 + dt.month * 100 + dt.day

\* the sum of the amounts of the records of es, in thousandths
RECURSIVE AmountSum(_)
AmountSum(es) ==
    IF es = <<>> THEN 0 ELSE ParseFloat(Head(es).amount)[1] + AmountSum(Tail(es))

\* the records of es dated in the given year and month
InMonth(es, year, month) ==
    SelectSeq(es, LAMBDA e : /\ strptime(e.date)[1].year = year
                             /\ strptime(e.date)[1].month = month)

\* the rows of a file whose amount and date are both valid
ValidRows(rows) ==
    SelectSeq(rows, LAMBDA r : /\ Len(r) >= 3
                               /\ ParseFloat(r[3]) # None
                               /\ strptime(r[2]) # None)

\* the inputs of add that are not a calendar date, and not a number
BadDates   == {Some(DateText(2024, 13, 1, 2)), Some(DateText(2024, 2, 30, 2))}
BadAmounts == {TxtAbc}

----------------------------------------------------------------------------
(* The claims *)

\* C1: whenever add returns a record or delete returns true or false, the
\* in-memory collection is what load() would read from the file.
C1_InSyncOnReturn ==
    (op \in {"add", "delete"} /\ ret \in {"record", "true", "false"})
        => (~load(file).raised /\ load(file).expenses = expenses)

\* C2: add with a date that is no calendar date, or with an amount that is
\* no number, raises the validation error and leaves the collection and the
\* file as they were.
C2_RejectedAddMutatesNothing ==
    (op = "add" /\ (args.date \in BadDates \/ args.amount \in BadAmounts))
        => (ret = "ValueError" /\ expenses = pre_expenses /\ file = pre_file)

\* C2 witness: an add with a bad amount and a good date was rejected on a
\* tracker that holds records.
C2_Witness ==
    /\ op = "add" /\ ret = "ValueError"
    /\ args.amount \in BadAmounts /\ args.date \notin BadDates
    /\ pre_expenses # <<>>

C4_LoadNeverFails ==
    op \in {"construct", "load"} =>
        LET valid == ValidRows(pre_file)
        IN  /\ ret = "none"
            /\ Len(expenses) = Len(valid)
            /\ \A i \in 1..Len(valid) :
                  /\ expenses[i].id = valid[i][1]
                  /\ expenses[i].date = valid[i][2]

\* C5: list without a limit returns exactly the records that pass the
\* filters, each once, ordered by date non-increasing, and leaves the
\* collection as it was.
C5_ListFilteredAndOrdered ==
    (op = "list" /\ args.limit = None) =>
        LET want == SelectSeq(pre_expenses, LAMBDA e :
                        /\ args.year = None \/ strptime(e.date)[1].year = args.year[1]
                        /\ args.month = None \/ strptime(e.date)[1].month = args.month[1]
                        /\ args.category = None
                              \/ lower(e.category) = lower(args.category[1]))
        IN  /\ expenses = pre_expenses
            /\ Len(out) = Len(want)
            /\ \A i \in 1..Len(want) : Count(out, want[i]) = Count(want, want[i])
            /\ \A i, j \in 1..Len(out) : i < j => Day(out[i]) >= Day(out[j])

\* C6: list with a limit n >= 0, 0 included, returns the first n elements of
\* the sorted filtered sequence.
C6_ListLimit ==
    (op = "list" /\ args.limit # None) =>
        LET full == list_expenses(pre_expenses, args.year, args.month, args.category, None)
            n    == args.limit[1]
        IN  /\ Len(out) = (IF n < Len(full) THEN n ELSE Len(full))
            /\ \A i \in 1..Len(out) : out[i] = full[i]

\* C7: the report has one entry per distinct category of the month's
\* records; an entry's count is the number of those records in the category,
\* its amount their sum; total_spent is the sum over the month, which is the
\* sum of the entries' amounts.
C7_Report ==
    op = "report" =>
        LET m       == InMonth(pre_expenses, args.year, args.month)
            entries == out.categories
            of(c)   == SelectSeq(m, LAMBDA e : e.category = c)
        IN  /\ {entries[i].category : i \in 1..Len(entries)}
                  = {m[i].category : i \in 1..Len(m)}
            /\ \A i, j \in 1..Len(entries) :
                  entries[i].category = entries[j].category => i = j
            /\ \A i \in 1..Len(entries) :
                  /\ entries[i].count = Len(of(entries[i].category))
                  /\ entries[i].amount = AmountSum(of(entries[i].category))
            /\ out.total_spent = AmountSum(m)
            /\ (m = <<>> => (entries = <<>> /\ out.total_spent = 0))

\* C7 witness: a report of a month in which one category holds two records
\* of different amounts (5.00 and 7.50).
C7_Witness ==
    /\ op = "report"
    /\ \E i \in 1..Len(out.categories) :
          out.categories[i].count = 2 /\ out.categories[i].amount = 12500

\* C8: no two records of the in-memory collection have the same id.
C8_UniqueIds ==
    \A i, j \in 1..Len(expenses) : i # j => expenses[i].id # expenses[j].id

\* C9: when the write of add or of delete fails with a storage error, the
\* in-memory collection is as it was before the call.
C9_StorageErrorPreservesMemory ==
    (op \in {"add", "delete"} /\ ret = "OSError") => expenses = pre_expenses

\* C10: for every category key c of the report of (year, month), the entry's
\* count and amount are those of list(year, month, category=c).
C10_ReportAgreesWithList ==
    op = "report" =>
        \A i \in 1..Len(out.categories) :
            LET entry  == out.categories[i]
                listed == list_expenses(pre_expenses, Some(args.year), Some(args.month),
                                        Some(entry.category), None)
            IN  /\ entry.count = Len(listed)
                /\ entry.amount = AmountSum(listed)

====
